---- MODULE Spec2Model ----
(***************************************************************************)
(* Model of src/iyp/__init__.py: the IYP wrapper around a Neo4j            *)
(* transaction (get_node, get_node_extid, add_links, commit, rollback,     *)
(* close), its two lru caches, and format_properties / dict2str.           *)
(***************************************************************************)
EXTENDS Integers, Sequences, FiniteSets, TLC

(***************************************************************************)
(* Bounds of the model.                                                    *)
(***************************************************************************)
\* number of public calls made on the IYP instance in one behaviour
MaxCalls == 3
\* longest list of links passed to add_links
MaxLinks == 2
\* two instances on one store: get_node calls and commits of each instance
MaxRaceCalls == 2
MaxCommits == 1

(***************************************************************************)
(* Python values.  A scalar is a record [t, v]: t is the Python type and   *)
(* v the text of the value (the decimal digits for an int).                *)
(***************************************************************************)
PyInt(s) == [t |-> "int", v |-> s]
PyStr(s) == [t |-> "str", v |-> s]
PyDatetime(s) == [t |-> "datetime", v |-> s]

\* Python None, as returned by get_node / get_node_extid when nothing matched
None == -1

\* int(x): an int is returned as is, a str is parsed (sign, blanks and
\* leading zeros do not survive the parse)
int(x) ==
    IF x.t = "int" THEN x
    ELSE PyInt(CASE x.v = "65000" -> "65000"
                 [] x.v = "065000" -> "65000"
                 [] x.v = " 65000" -> "65000"
                 [] x.v = "2497" -> "2497"
                 [] OTHER -> x.v)

\* str.swapcase() where str.lower() is meant
lower_swapcase(x) ==
    PyStr(CASE x.v = "2001:DB8::/32" -> "2001:db8::/32"
            [] x.v = "2001:db8::/32" -> "2001:DB8::/32"
            [] x.v = "2001:Db8::/32" -> "2001:dB8::/32"
            [] x.v = "2001:DB8::1" -> "2001:db8::1"
            [] x.v = "2001:db8::1" -> "2001:DB8::1"
            [] OTHER -> x.v)

\* str.lower()
lower(x) ==
    PyStr(CASE x.v = "2001:DB8::/32" -> "2001:db8::/32"
            [] x.v = "2001:Db8::/32" -> "2001:db8::/32"
            [] x.v = "2001:DB8::1" -> "2001:db8::1"
            [] x.v = "JP" -> "jp"
            [] x.v = "Jp" -> "jp"
            [] OTHER -> x.v)

\* str.upper()
upper(x) ==
    PyStr(CASE x.v = "jp" -> "JP"
            [] x.v = "Jp" -> "JP"
            [] x.v = "2001:db8::/32" -> "2001:DB8::/32"
            [] x.v = "2001:Db8::/32" -> "2001:DB8::/32"
            [] x.v = "2001:db8::1" -> "2001:DB8::1"
            [] OTHER -> x.v)

\* a dict is a function from a finite set of keys to scalars
EmptyDict == [k \in {} |-> PyStr("")]

\* d | {k: v}
DictSet(d, k, v) == [j \in DOMAIN d \cup {k} |-> IF j = k THEN v ELSE d[j]]

\* d overwritten by every entry of e
DictUpdate(d, e) ==
    [j \in DOMAIN d \cup DOMAIN e |-> IF j \in DOMAIN e THEN e[j] ELSE d[j]]

\* format_properties(prop): arg is the caller's dictionary after the call,
\* ret the dictionary returned
format_properties_call(prop) ==
    LET p0 == prop  \* prop = dict(prop): the rest works on a copy
        p1 == IF "asn" \in DOMAIN p0
              THEN DictSet(p0, "asn", int(p0["asn"])) ELSE p0
        p2 == IF "ip" \in DOMAIN p1
              THEN DictSet(p1, "ip", lower(p1["ip"])) ELSE p1
        p3 == IF "prefix" \in DOMAIN p2
              THEN DictSet(p2, "prefix", lower(p2["prefix"])) ELSE p2
        p4 == IF "country_code" \in DOMAIN p3
              THEN DictSet(p3, "country_code", upper(p3["country_code"])) ELSE p3
    IN  [arg |-> prop, ret |-> p4]

format_properties(prop) == format_properties_call(prop).ret

\* dict2str(d) as the store reads it back: the Cypher map literal keeps an
\* int an int and a str a str, and writes a datetime between double quotes,
\* which the store reads as a str
CypherLiteral(x) == IF x.t = "datetime" THEN PyStr(x.v) ELSE x

dict2str(d) == [k \in DOMAIN d |-> CypherLiteral(d[k])]

(***************************************************************************)
(* The constraint registry.                                                *)
(***************************************************************************)
NODE_CONSTRAINTS_LABELS == {"AS", "PREFIX", "IP", "DOMAIN_NAME", "COUNTRY", "ORGANIZATION"}

NODE_CONSTRAINTS ==
    [label \in NODE_CONSTRAINTS_LABELS |->
        CASE label = "AS" -> [p \in {"asn"} |-> {"UNIQUE", "NOT NULL"}]
          [] label = "PREFIX" ->
                [p \in {"prefix", "af"} |->
                    IF p = "prefix" THEN {"UNIQUE", "NOT NULL"} ELSE {"NOT NULL"}]
          [] label = "IP" ->
                [p \in {"ip", "af"} |->
                    IF p = "ip" THEN {"UNIQUE", "NOT NULL"} ELSE {"NOT NULL"}]
          [] label = "DOMAIN_NAME" -> [p \in {"name"} |-> {"UNIQUE", "NOT NULL"}]
          [] label = "COUNTRY" -> [p \in {"country_code"} |-> {"UNIQUE", "NOT NULL"}]
          [] label = "ORGANIZATION" -> [p \in {"name"} |-> {"NOT NULL"}]]

\* self.neo4j_enterprise, set in __init__
neo4j_enterprise == FALSE

\* _db_init with the edition test lost: on the community edition no
\* constraint is created at all
db_init_none == {}

\* _db_init: the constraints the store holds after construction, as
\* <<label, property, kind>>
db_init ==
    {c \in {<<label, p, kind>> :
                label \in NODE_CONSTRAINTS_LABELS,
                p \in {"asn", "prefix", "af", "ip", "name", "country_code"},
                kind \in {"UNIQUE", "NOT NULL"}} :
        /\ c[2] \in DOMAIN NODE_CONSTRAINTS[c[1]]
        /\ c[3] \in NODE_CONSTRAINTS[c[1]][c[2]]
        /\ ~(~neo4j_enterprise /\ c[3] # "UNIQUE")}

(***************************************************************************)
(* The store, as the statements of this module use it.  A node is          *)
(* [labels, props]; `ns` maps the identifiers of the nodes the transaction *)
(* sees to them; a relationship is [src, dst, type, props] and the         *)
(* relationships form a sequence, so that two equal ones are two entries.  *)
(***************************************************************************)
NoNodes == [i \in {} |-> [labels |-> {}, props |-> EmptyDict]]

\* the type argument: a str ('AS') or a list of str (['AS', 'FOO'])
Str(s) == [isList |-> FALSE, names |-> <<s>>]
List(names) == [isList |-> TRUE, names |-> names]

\* the labels of `type` once `type` has been put in a list
TypeLabels(type) == {type.names[i] : i \in 1..Len(type.names)}

\* the nodes a pattern (a:L1:L2 {k: v, ...}) matches
Match(ns, labels, pattern) ==
    {i \in DOMAIN ns :
        /\ labels \subseteq ns[i].labels
        /\ \A k \in DOMAIN pattern :
              k \in DOMAIN ns[i].props /\ ns[i].props[k] = pattern[k]}

\* Result.single(): the record, None when there is none, the first one
\* when there are several
single(rows) == IF rows = {} THEN {None} ELSE rows

\* the store refuses a write that leaves two nodes of a label with the same
\* value of a property under a UNIQUE constraint of that label
ConstraintViolated(ns) ==
    \E c \in db_init :
        /\ c[3] = "UNIQUE"
        /\ \E i, j \in DOMAIN ns :
              /\ i # j
              /\ c[1] \in ns[i].labels /\ c[1] \in ns[j].labels
              /\ c[2] \in DOMAIN ns[i].props /\ c[2] \in DOMAIN ns[j].props
              /\ ns[i].props[c[2]] = ns[j].props[c[2]]

\* one outcome of a call: what the caller gets, what the store becomes
Outcome(outcome, ret, queried, fallback, ns, nid) ==
    [outcome |-> outcome, ret |-> ret, queried |-> queried,
     fallback |-> fallback, nodes |-> ns, nextId |-> nid]

\* constraint_prop of get_node: every property the registry lists for the
\* label, UNIQUE or not
constraint_prop(label, prop) == [c \in DOMAIN NODE_CONSTRAINTS[label] |-> prop[c]]

\* get_node without its try/except: the ConstraintError of the MERGE leaves
\* get_node
on_constraint_error_raise(label, prop, ns, nid) ==
    {Outcome("ConstraintError", None, TRUE, FALSE, ns, nid)}

\* except ConstraintError: the warning on stderr, then
\* MATCH (a:label {constraint_prop}) RETURN ID(a)
on_constraint_error(label, prop, ns, nid) ==
    {Outcome("return", r, TRUE, TRUE, ns, nid) :
        r \in single(Match(ns, {label}, dict2str(constraint_prop(label, prop))))}

\* the nodes ns after MERGE (a:label {constraint_prop}) ON MATCH SET props,
\* labels ON CREATE SET props, labels, were the store to accept it
Merged(label, labels, prop, ns, nid) ==
    LET pattern == dict2str(constraint_prop(label, prop))
        sets == dict2str(prop)
        matched == Match(ns, {label}, pattern)
    IN  IF matched # {}
        THEN [i \in DOMAIN ns |->
                IF i \in matched
                THEN [labels |-> ns[i].labels \cup labels,
                      props |-> DictUpdate(ns[i].props, sets)]
                ELSE ns[i]]
        ELSE [i \in DOMAIN ns \cup {nid} |->
                IF i = nid
                THEN [labels |-> {label} \cup labels,
                      props |-> DictUpdate(pattern, sets)]
                ELSE ns[i]]

\* MERGE (a:label {constraint_prop}) ON MATCH SET props, labels
\* ON CREATE SET props, labels RETURN ID(a); on ConstraintError the MERGE
\* is undone and the except branch runs
merge_constrained(label, labels, prop, ns, nid) ==
    LET pattern == dict2str(constraint_prop(label, prop))
        matched == Match(ns, {label}, pattern)
        merged == Merged(label, labels, prop, ns, nid)
    IN  IF ConstraintViolated(merged)
        THEN on_constraint_error(label, prop, ns, nid)
        ELSE IF matched # {}
        THEN {Outcome("return", r, TRUE, FALSE, merged, nid) : r \in matched}
        ELSE {Outcome("return", nid, TRUE, FALSE, merged, nid + 1)}

\* MERGE (a:type_str {prop}) RETURN ID(a)
merge_plain(labels, prop, ns, nid) ==
    LET pattern == dict2str(prop)
        matched == Match(ns, labels, pattern)
    IN  IF matched # {}
        THEN {Outcome("return", r, TRUE, FALSE, ns, nid) : r \in matched}
        ELSE {Outcome("return", nid, TRUE, FALSE,
                      [i \in DOMAIN ns \cup {nid} |->
                          IF i = nid THEN [labels |-> labels, props |-> pattern]
                          ELSE ns[i]],
                      nid + 1)}

\* the lookup with MERGE in place of MATCH
match_plain_merging(labels, prop, ns, nid) == merge_plain(labels, prop, ns, nid)

\* MATCH (a:type_str {prop}) RETURN ID(a)
match_plain(labels, prop, ns, nid) ==
    {Outcome("return", r, TRUE, FALSE, ns, nid) :
        r \in single(Match(ns, labels, dict2str(prop)))}

\* the body of get_node (lines 171-216), run on a cache miss: the set of
\* its possible outcomes.  txopen is FALSE once close() has ended self.tx:
\* tx.run then raises
get_node_body(type, prop0, create, ns, nid, txopen) ==
    LET prop == format_properties(prop0)
        labels == TypeLabels(type)
        has_constraints == NODE_CONSTRAINTS_LABELS \cap labels
        closed == {Outcome("TransactionError", None, TRUE, FALSE, ns, nid)}
    IN  IF create
        THEN IF has_constraints # {}
             THEN UNION {
                    IF ~(DOMAIN NODE_CONSTRAINTS[label] \subseteq DOMAIN prop)
                    THEN {Outcome("KeyError", None, FALSE, FALSE, ns, nid)}
                    ELSE IF ~txopen THEN closed
                    ELSE merge_constrained(label, labels, prop, ns, nid)
                    : label \in has_constraints}
             ELSE IF ~txopen THEN closed
             ELSE merge_plain(labels, prop, ns, nid)
        ELSE IF ~txopen THEN closed
        ELSE match_plain(labels, prop, ns, nid)

(***************************************************************************)
(* add_links: the statements it sends to the transaction.                  *)
(***************************************************************************)
\* only the first of the three assertions
HasReference_org_only(prop) == "reference_org" \in DOMAIN prop

\* the three assertions on a link's prop
HasReference(prop) ==
    /\ "reference_org" \in DOMAIN prop
    /\ "reference_url" \in DOMAIN prop
    /\ "reference_time" \in DOMAIN prop

\* the statement built for links 1..n: MATCH (x), (x0), ... WHERE ID(x) = src
\* AND ID(x0) = dst0 ... MERGE (x)-[:type {prop}]->(x0) ...
LinkStatement(src_node, links, n) ==
    [src |-> src_node,
     dsts |-> [i \in 1..n |-> links[i].dst],
     merges |-> [i \in 1..n |->
                    [type |-> links[i].type,
                     props |-> dict2str(format_properties(links[i].prop))]]]

\* add_links with tx.run inside the loop: one statement per link, each sent
\* before the next link is looked at
add_links_stmts_eager(src_node, links) ==
    LET bad == {i \in 1..Len(links) : ~HasReference(links[i].prop)}
        n == IF bad = {} THEN Len(links)
             ELSE (CHOOSE i \in bad : \A j \in bad : i <= j) - 1
    IN  [raised |-> bad # {},
         stmts |-> [i \in 1..n |-> LinkStatement(src_node, SubSeq(links, i, i), 1)]]

\* add_links up to tx.run: whether an assertion failed, and the statements
\* sent to the transaction (none when one did: the only tx.run follows the loop)
add_links_stmts(src_node, links) ==
    IF \E i \in 1..Len(links) : ~HasReference(links[i].prop)
    THEN [raised |-> TRUE, stmts |-> << >>]
    ELSE [raised |-> FALSE,
          stmts |-> << LinkStatement(src_node, links, Len(links)) >>]

\* CREATE (x)-[:type {props}]->(xi): one more relationship each time
MergeRel_create(rs, src, dst, type, props) ==
    Append(rs, [src |-> src, dst |-> dst, type |-> type, props |-> props])

\* MERGE (x)-[:type {props}]->(xi): nothing when such a relationship is
\* there, one more relationship when it is not
MergeRel(rs, src, dst, type, props) ==
    IF \E i \in 1..Len(rs) :
          /\ rs[i].src = src /\ rs[i].dst = dst /\ rs[i].type = type
          /\ \A k \in DOMAIN props :
                k \in DOMAIN rs[i].props /\ rs[i].props[k] = props[k]
    THEN rs
    ELSE Append(rs, [src |-> src, dst |-> dst, type |-> type, props |-> props])

RECURSIVE ApplyMerges(_, _, _)
\* the MERGE clauses of one statement, in order, from clause i on
ApplyMerges(rs, stmt, i) ==
    IF i > Len(stmt.merges) THEN rs
    ELSE ApplyMerges(MergeRel(rs, stmt.src, stmt.dsts[i],
                              stmt.merges[i].type, stmt.merges[i].props),
                     stmt, i + 1)

\* one statement of add_links run by the store: the MATCH binds nothing when
\* one of the identifiers is no node the transaction sees
RunLinkStatement(rs, ns, stmt) ==
    IF stmt.src \in DOMAIN ns /\ \A i \in 1..Len(stmt.dsts) : stmt.dsts[i] \in DOMAIN ns
    THEN ApplyMerges(rs, stmt, 1)
    ELSE rs

RECURSIVE RunLinkStatements(_, _, _, _)
RunLinkStatements(rs, ns, stmts, i) ==
    IF i > Len(stmts) THEN rs
    ELSE RunLinkStatements(RunLinkStatement(rs, ns, stmts[i]), ns, stmts, i + 1)

(***************************************************************************)
(* The calls a behaviour draws from.                                       *)
(***************************************************************************)
\* BaseCrawler.reference
Reference ==
    [reference_org |-> PyStr("TEST"), reference_url |-> PyStr("http://x"),
     reference_time |-> PyDatetime("2022-01-01 00:00:00+00:00")]

\* a link prop without its reference_time
NoTime == [reference_org |-> PyStr("TEST"), reference_url |-> PyStr("http://x")]

Descriptors ==
    {[type |-> Str("AS"), prop |-> [asn |-> PyStr("65000"), name |-> PyStr("A")]],
     [type |-> Str("AS"), prop |-> [asn |-> PyInt("65000"), name |-> PyStr("B")]],
     [type |-> List(<<"AS", "FOO">>), prop |-> [asn |-> PyStr("65000")]],
     [type |-> List(<<"FOO", "AS">>), prop |-> [asn |-> PyInt("65000")]],
     [type |-> List(<<"FOO", "AS">>), prop |-> [asn |-> PyStr("65000")]],
     [type |-> List(<<"AS", "COUNTRY">>),
      prop |-> [asn |-> PyInt("65000"), country_code |-> PyStr("jp")]],
     [type |-> Str("PREFIX"),
      prop |-> [prefix |-> PyStr("2001:DB8::/32"), af |-> PyInt("6")]],
     [type |-> Str("PREFIX"),
      prop |-> [prefix |-> PyStr("2001:db8::/32"), af |-> PyInt("4")]],
     [type |-> Str("PREFIX"), prop |-> [prefix |-> PyStr("2001:db8::/32")]],
     [type |-> Str("PEERINGDB_ORG_ID"), prop |-> [id |-> PyInt("7")]]}

\* the (id_type, id) pairs get_node_extid is called with
ExtIds == {[id_type |-> "PEERINGDB_ORG_ID", id |-> PyInt("7")]}

\* the links of one add_links call: 1..MaxLinks links, to the destinations
\* d, e, d, ... (one destination when d = e)
LinkKinds == {[type |-> "ORIGINATE", prop |-> Reference],
              [type |-> "ORIGINATE", prop |-> NoTime]}

LinkLists(d, e) ==
    UNION {{[i \in 1..n |-> [type |-> ks[i].type,
                             dst |-> IF i % 2 = 1 THEN d ELSE e,
                             prop |-> ks[i].prop]] :
                ks \in [1..n -> LinkKinds]} : n \in 1..MaxLinks}

(***************************************************************************)
(* State.                                                                  *)
(***************************************************************************)
VARIABLES
    nodes,          \* the nodes self.tx sees: identifier -> [labels, props]
    rels,           \* the relationships self.tx sees
    durableNodes,   \* the committed nodes
    durableRels,    \* the committed relationships
    nextId,         \* the identifier the store gives the next node
    tx,             \* "open", or "closed" once close() has run
    txs,            \* the transactions open on self.session
    txid,           \* the transaction self.tx refers to
    cache,          \* lru_cache of get_node: (type, prop, create) -> result
    cacheExt,       \* lru_cache of get_node_extid: (id_type, id) -> result
    last,           \* the call made last and what it did
    seen,           \* get_node calls of this transaction -> their last outcome
    stale,          \* get_node keys cached before the last commit/rollback
                    \* and not looked up since
    staleExt,       \* the same for get_node_extid
    calls,          \* number of calls made
    fmt,            \* the format_properties call under test
    inst            \* two IYP instances on one store: instance -> its state

vars == <<nodes, rels, durableNodes, durableRels, nextId, tx, txs, txid, cache, cacheExt,
          last, seen, stale, staleExt, calls, fmt, inst>>

Key(type, prop, create) == [type |-> type, prop |-> prop, create |-> create]

NoKey == Key(Str(""), EmptyDict, FALSE)

NoCall == [outcome |-> "never", ret |-> None]

\* a tx.commit() or tx.rollback() that leaves the transaction open
tx_end_keep(open, t) == open

\* self.tx.commit(), self.tx.rollback(): transaction t of the session ends
tx_end(open, t) == open \ {t}

\* self.session.begin_transaction(): transaction t opens on the session
begin_transaction(open, t) == open \cup {t}

\* a rollback that keeps the pending statements, as a commit does
tx_rollback_keep(view, committed) == [view |-> view, durable |-> view]

\* self.tx.rollback(): the pending statements are dropped; what the next
\* transaction sees and what is durable is the committed state
tx_rollback(view, committed) == [view |-> committed, durable |-> committed]

\* self.tx.commit(): what the transaction saw becomes durable
tx_commit(view, committed) == [view |-> view, durable |-> view]

\* what `last` records of a call
Call(op, key, o, hit, before, wasStale, stmts, created) ==
    [op |-> op, key |-> key, src |-> None, links |-> << >>,
     outcome |-> o.outcome, ret |-> o.ret,
     queried |-> o.queried, fallback |-> o.fallback, hit |-> hit,
     before |-> before, stale |-> wasStale, stmts |-> stmts, created |-> created]

Plain(outcome, queried) == Outcome(outcome, None, queried, FALSE, NoNodes, 0)

FmtIdle ==
    [called |-> FALSE, arg |-> EmptyDict, after |-> EmptyDict,
     once |-> EmptyDict, twice |-> EmptyDict]

\* a store no crawler has written to
EmptyStore == [nodes |-> NoNodes, rels |-> << >>, nextId |-> 0]

\* a store an earlier run has left: the AS, an external identifier of it
SeededStore ==
    [nodes |-> [i \in {0, 1} |->
                  IF i = 0
                  THEN [labels |-> {"AS"},
                        props |-> [asn |-> PyInt("65000"), name |-> PyStr("A")]]
                  ELSE [labels |-> {"PEERINGDB_ORG_ID"},
                        props |-> [id |-> PyInt("7")]]],
     rels |-> << [src |-> 0, dst |-> 1, type |-> "EXTERNAL_ID",
                  props |-> dict2str(Reference)] >>,
     nextId |-> 2]

\* IYP.__init__: the session, _db_init, the first transaction; both lru
\* caches are empty in a new process
InitIYP ==
    /\ \E store \in {EmptyStore, SeededStore} :
          /\ nodes = store.nodes /\ durableNodes = store.nodes
          /\ rels = store.rels /\ durableRels = store.rels
          /\ nextId = store.nextId
    /\ tx = "open"
    /\ txid = 0
    /\ txs = begin_transaction({}, 0)
    /\ cache = [k \in {} |-> None]
    /\ cacheExt = [k \in {} |-> None]
    /\ last = Call("init", NoKey, Plain("return", FALSE), FALSE, NoCall, FALSE, 0, 0)
    /\ seen = [k \in {} |-> NoCall]
    /\ stale = {}
    /\ staleExt = {}
    /\ calls = 0

Init == InitIYP /\ fmt = FmtIdle /\ inst = << >>

(***************************************************************************)
(* get_node, through freezeargs and lru_cache.  The cache key is the       *)
(* arguments as passed (prop frozen, not formatted); a list is unhashable  *)
(* and lru_cache raises TypeError on it before any lookup.  The cache      *)
(* holds 100000 entries, more than a behaviour makes calls: no entry is    *)
(* evicted.  Every call passes create the same way (by keyword), so that   *)
(* equal arguments make equal keys.                                        *)
(***************************************************************************)
Previous(key) == IF key \in DOMAIN seen THEN seen[key] ELSE NoCall

Remember(key, o) ==
    [k \in DOMAIN seen \cup {key} |->
        IF k = key THEN [outcome |-> o.outcome, ret |-> o.ret] ELSE seen[k]]

get_node(type, prop, create) ==
    LET key == Key(type, prop, create)
        done(o, hit) ==
            /\ last' = Call("get_node", key, o, hit, Previous(key), key \in stale, 0, 0)
            /\ seen' = Remember(key, o)
            /\ stale' = stale \ {key}
    IN  /\ calls < MaxCalls
        /\ calls' = calls + 1
        /\ IF type.isList
           THEN /\ done(Outcome("TypeError", None, FALSE, FALSE, nodes, nextId), FALSE)
                /\ UNCHANGED <<nodes, nextId, cache>>
           ELSE IF key \in DOMAIN cache
           THEN /\ done(Outcome("return", cache[key], FALSE, FALSE, nodes, nextId), TRUE)
                /\ UNCHANGED <<nodes, nextId, cache>>
           ELSE \E o \in get_node_body(type, prop, create, nodes, nextId, tx = "open") :
                /\ done(o, FALSE)
                /\ nodes' = o.nodes
                /\ nextId' = o.nextId
                /\ cache' = IF o.outcome = "return"
                            THEN [k \in DOMAIN cache \cup {key} |->
                                    IF k = key THEN o.ret ELSE cache[k]]
                            ELSE cache
        /\ UNCHANGED <<rels, durableNodes, durableRels, tx, txs, txid, cacheExt, staleExt, fmt, inst>>

\* a label list is resolved with create=True only
GetNode ==
    \E d \in Descriptors, create \in BOOLEAN :
        /\ d.type.isList => create
        /\ get_node(d.type, d.prop, create)

(***************************************************************************)
(* get_node_extid, through lru_cache.                                      *)
(***************************************************************************)
\* MATCH (a)-[:EXTERNAL_ID]->(:id_type {id: id}) RETURN ID(a)
match_extid(id_type, id, ns, rs) ==
    single({rs[i].src : i \in {j \in 1..Len(rs) :
                /\ rs[j].type = "EXTERNAL_ID"
                /\ rs[j].src \in DOMAIN ns
                /\ rs[j].dst \in Match(ns, {id_type}, [id |-> id])}})

get_node_extid(id_type, id) ==
    LET key == [id_type |-> id_type, id |-> id]
        shown == Key(Str(id_type), [id |-> id], FALSE)
        done(o, hit) ==
            /\ last' = Call("get_node_extid", shown, o, hit, NoCall, key \in staleExt, 0, 0)
            /\ staleExt' = staleExt \ {key}
    IN  /\ calls < MaxCalls
        /\ calls' = calls + 1
        /\ IF key \in DOMAIN cacheExt
           THEN /\ done(Outcome("return", cacheExt[key], FALSE, FALSE, nodes, nextId), TRUE)
                /\ UNCHANGED cacheExt
           ELSE IF tx # "open"
           THEN /\ done(Outcome("TransactionError", None, TRUE, FALSE, nodes, nextId), FALSE)
                /\ UNCHANGED cacheExt
           ELSE \E r \in match_extid(id_type, id, nodes, rels) :
                /\ done(Outcome("return", r, TRUE, FALSE, nodes, nextId), FALSE)
                /\ cacheExt' = [k \in DOMAIN cacheExt \cup {key} |->
                                  IF k = key THEN r ELSE cacheExt[k]]
        /\ UNCHANGED <<nodes, rels, durableNodes, durableRels, nextId, tx, txs, txid, cache,
                       seen, stale, fmt, inst>>

GetNodeExtid == \E e \in ExtIds : get_node_extid(e.id_type, e.id)

(***************************************************************************)
(* add_links, called with at least one link.  A statement whose MATCH      *)
(* binds nothing creates nothing and add_links returns.                    *)
(***************************************************************************)
add_links(src_node, links) ==
    LET built == add_links_stmts(src_node, links)
        ran == RunLinkStatements(rels, nodes, built.stmts, 1)
        done(outcome, rs) ==
            /\ last' = [Call("add_links", NoKey,
                             Plain(outcome, built.stmts # << >>), FALSE, NoCall, FALSE,
                             Len(built.stmts), Len(rs) - Len(rels))
                        EXCEPT !.src = src_node, !.links = links]
            /\ rels' = rs
    IN  /\ calls < MaxCalls
        /\ calls' = calls + 1
        /\ IF tx # "open" /\ built.stmts # << >>
           THEN done("TransactionError", rels)
           ELSE IF built.raised
           THEN done("AssertionError", ran)
           ELSE done("return", ran)
        /\ UNCHANGED <<nodes, durableNodes, durableRels, nextId, tx, txs, txid, cache, cacheExt,
                       seen, stale, staleExt, fmt, inst>>

\* src_node and the destinations are identifiers the store has given out,
\* the destinations given out after src_node
AddLinks ==
    \E src_node \in 0..(nextId - 1), d \in 0..(nextId - 1), e \in 0..(nextId - 1) :
        /\ src_node < d /\ d <= e
        /\ \E links \in LinkLists(d, e) : add_links(src_node, links)

(***************************************************************************)
(* commit, rollback, close.  None of them touches the two lru caches.      *)
(***************************************************************************)
Boundary(op) ==
    /\ last' = Call(op, NoKey, Plain("return", FALSE), FALSE, NoCall, FALSE, 0, 0)
    /\ seen' = [k \in {} |-> NoCall]
    /\ stale' = DOMAIN cache
    /\ staleExt' = DOMAIN cacheExt

Refused(op) ==
    /\ last' = Call(op, NoKey, Plain("TransactionError", FALSE), FALSE, NoCall, FALSE, 0, 0)
    /\ UNCHANGED <<nodes, rels, durableNodes, durableRels, tx, txs, txid, seen, stale, staleExt>>

\* self.tx.commit(); self.tx = self.session.begin_transaction()
commit ==
    /\ calls < MaxCalls
    /\ calls' = calls + 1
    /\ IF tx = "open"
       THEN /\ nodes' = tx_commit(nodes, durableNodes).view
            /\ durableNodes' = tx_commit(nodes, durableNodes).durable
            /\ rels' = tx_commit(rels, durableRels).view
            /\ durableRels' = tx_commit(rels, durableRels).durable
            /\ txid' = txid + 1
            /\ txs' = begin_transaction(tx_end(txs, txid), txid + 1)
            /\ Boundary("commit")
            /\ UNCHANGED tx
       ELSE Refused("commit")
    /\ UNCHANGED <<nextId, cache, cacheExt, fmt, inst>>

\* self.tx.rollback(); self.tx = self.session.begin_transaction()
rollback ==
    /\ calls < MaxCalls
    /\ calls' = calls + 1
    /\ IF tx = "open"
       THEN /\ nodes' = tx_rollback(nodes, durableNodes).view
            /\ durableNodes' = tx_rollback(nodes, durableNodes).durable
            /\ rels' = tx_rollback(rels, durableRels).view
            /\ durableRels' = tx_rollback(rels, durableRels).durable
            /\ txid' = txid + 1
            /\ txs' = begin_transaction(tx_end(txs, txid), txid + 1)
            /\ Boundary("rollback")
            /\ UNCHANGED tx
       ELSE Refused("rollback")
    /\ UNCHANGED <<nextId, cache, cacheExt, fmt, inst>>

\* self.tx.commit(); self.session.close(); self.db.close()
close ==
    /\ calls < MaxCalls
    /\ calls' = calls + 1
    /\ IF tx = "open"
       THEN /\ nodes' = tx_commit(nodes, durableNodes).view
            /\ durableNodes' = tx_commit(nodes, durableNodes).durable
            /\ rels' = tx_commit(rels, durableRels).view
            /\ durableRels' = tx_commit(rels, durableRels).durable
            /\ txs' = tx_end(txs, txid)
            /\ tx' = "closed"
            /\ Boundary("close")
            /\ UNCHANGED txid
       ELSE Refused("close")
    /\ UNCHANGED <<nextId, cache, cacheExt, fmt, inst>>

Next == GetNode \/ GetNodeExtid \/ AddLinks \/ commit \/ rollback \/ close

Spec == Init /\ [][Next]_vars

(***************************************************************************)
(* format_properties on its own: a caller holds a dictionary, calls        *)
(* format_properties on it, and calls it again on what it returned.        *)
(***************************************************************************)
FmtKeys == {"asn", "ip", "prefix", "country_code", "name"}

FmtValues(k) ==
    CASE k = "asn" -> {PyStr("65000"), PyStr("065000"), PyStr(" 65000"), PyInt("65000")}
      [] k = "ip" -> {PyStr("2001:DB8::1"), PyStr("2001:db8::1")}
      [] k = "prefix" -> {PyStr("2001:DB8::/32"), PyStr("2001:Db8::/32"),
                          PyStr("2001:db8::/32")}
      [] k = "country_code" -> {PyStr("jp"), PyStr("JP"), PyStr("Jp")}
      [] k = "name" -> {PyStr("Jp")}

FmtInputs ==
    UNION {{p \in [ks -> UNION {FmtValues(k) : k \in FmtKeys}] :
                \A k \in ks : p[k] \in FmtValues(k)} : ks \in SUBSET FmtKeys}

\* the caller holds any of the dictionaries of FmtInputs
InitFormat ==
    /\ InitIYP
    /\ nodes = NoNodes
    /\ \E p \in FmtInputs : fmt = [FmtIdle EXCEPT !.arg = p, !.after = p]
    /\ inst = << >>

\* once = format_properties(arg); twice = format_properties(once)
FormatCall ==
    /\ ~fmt.called
    /\ LET first == format_properties_call(fmt.arg)
           second == format_properties_call(first.ret)
       IN  fmt' = [called |-> TRUE, arg |-> fmt.arg, after |-> first.arg,
                   once |-> first.ret, twice |-> second.ret]
    /\ UNCHANGED <<nodes, rels, durableNodes, durableRels, nextId, tx, txs, txid, cache,
                   cacheExt, last, seen, stale, staleExt, calls, inst>>

NextFormat == FormatCall

SpecFormat == InitFormat /\ [][NextFormat]_vars

(***************************************************************************)
(* Properties.                                                             *)
(***************************************************************************)
Lookups == {"get_node", "get_node_extid"}

\* the properties of a label that are under a UNIQUE rule of the registry
UniqueProps(label) ==
    {p \in DOMAIN NODE_CONSTRAINTS[label] : "UNIQUE" \in NODE_CONSTRAINTS[label][p]}

\* the normalized value of property p
Normalized(p, v) == format_properties([k \in {p} |-> v])[p]

\* a get_node key whose prop holds every property the registry lists for
\* its constrained labels
WellFormed(key) ==
    \A label \in TypeLabels(key.type) \cap NODE_CONSTRAINTS_LABELS :
        DOMAIN NODE_CONSTRAINTS[label] \subseteq DOMAIN key.prop

\* C1: after commit() or rollback(), the first get_node / get_node_extid for
\* a key that was cached before the boundary issues a store query instead of
\* answering from the cache.
C1_ReconsultAfterBoundary ==
    (last.op \in Lookups /\ last.stale) => last.queried

\* C2: an identifier returned by get_node or get_node_extid is the identifier
\* of a node the current transaction sees.
C2_NoStaleIdentifier ==
    (last.op \in Lookups /\ last.outcome = "return" /\ last.ret # None)
        => last.ret \in DOMAIN nodes

\* C3: a get_node(d, create=True) that repeats a call of the same transaction
\* returns an identifier, the one the earlier call returned, and issues no
\* store query (d holding every property its label requires).
C3_SecondCreateHitsCache ==
    (/\ last.op = "get_node" /\ last.key.create /\ WellFormed(last.key)
     /\ last.before # NoCall)
        => /\ last.outcome = "return" /\ last.ret # None
           /\ last.before = [outcome |-> "return", ret |-> last.ret]
           /\ ~last.queried

\* C4: two creating get_node calls on one constrained label with equal
\* normalized unique key return the same identifier, whatever their other
\* properties, and after a creating call the node holds the properties of
\* that call (last write wins); PREFIX and IP with their af included.
C4_SameKeySameNode ==
    /\ \A k1, k2 \in DOMAIN seen :
          (/\ k1.create /\ k2.create
           /\ ~k1.type.isList /\ k1.type = k2.type
           /\ k1.type.names[1] \in NODE_CONSTRAINTS_LABELS
           /\ UniqueProps(k1.type.names[1]) # {}
           /\ WellFormed(k1) /\ WellFormed(k2)
           /\ \A p \in UniqueProps(k1.type.names[1]) :
                 Normalized(p, k1.prop[p]) = Normalized(p, k2.prop[p]))
              => /\ seen[k1].outcome = "return" /\ seen[k2].outcome = "return"
                 /\ seen[k1].ret # None
                 /\ seen[k1].ret = seen[k2].ret
    /\ (/\ last.op = "get_node" /\ last.key.create /\ last.outcome = "return"
        /\ ~last.key.type.isList
        /\ last.key.type.names[1] \in NODE_CONSTRAINTS_LABELS)
          => /\ last.ret \in DOMAIN nodes
             /\ \A p \in DOMAIN last.key.prop :
                   /\ p \in DOMAIN nodes[last.ret].props
                   /\ nodes[last.ret].props[p] = format_properties(last.key.prop)[p]

\* two nodes of ns with label `label` and the same normalized value of p
Duplicate(ns, label, p) ==
    \E i, j \in DOMAIN ns :
        /\ i # j
        /\ label \in ns[i].labels /\ label \in ns[j].labels
        /\ p \in DOMAIN ns[i].props /\ p \in DOMAIN ns[j].props
        /\ Normalized(p, ns[i].props[p]) = Normalized(p, ns[j].props[p])

\* C5: in the transaction's view and in the committed store, no two nodes of
\* a constrained label hold equal normalized values of a unique property of
\* that label.
C5_UniqueKeys ==
    \A label \in NODE_CONSTRAINTS_LABELS : \A p \in UniqueProps(label) :
        ~Duplicate(nodes, label, p) /\ ~Duplicate(durableNodes, label, p)

\* a creating get_node whose MERGE the store refused has just run, and the
\* node it collided with is there
C5_Witness ==
    /\ last.op = "get_node" /\ last.key.create /\ last.fallback
    /\ Match(nodes, {"PREFIX"}, [prefix |-> PyStr("2001:db8::/32")]) # {}

\* C6: an add_links call that fails on a link without reference_org,
\* reference_url or reference_time has sent no statement to the transaction
\* and created no relationship.
C6_NoPartialLinks ==
    (last.op = "add_links" /\ last.outcome = "AssertionError")
        => last.stmts = 0 /\ last.created = 0

\* add_links has failed on its second link, the first link being complete
\* and between two nodes the transaction sees, not yet linked that way
C6_Witness ==
    /\ last.op = "add_links" /\ last.outcome = "AssertionError"
    /\ Len(last.links) >= 2
    /\ {"reference_org", "reference_url", "reference_time"}
          \subseteq DOMAIN last.links[1].prop
    /\ ~({"reference_org", "reference_url", "reference_time"}
          \subseteq DOMAIN last.links[2].prop)
    /\ last.src \in DOMAIN nodes /\ last.links[1].dst \in DOMAIN nodes
    /\ \A i \in 1..Len(rels) :
          ~(/\ rels[i].src = last.src /\ rels[i].dst = last.links[1].dst
            /\ rels[i].type = last.links[1].type)

\* C7: every relationship, in the transaction's view and in the committed
\* store, carries reference_org, reference_url and reference_time.
C7_LinksCarryReference ==
    /\ \A i \in 1..Len(rels) :
          {"reference_org", "reference_url", "reference_time"}
              \subseteq DOMAIN rels[i].props
    /\ \A i \in 1..Len(durableRels) :
          {"reference_org", "reference_url", "reference_time"}
              \subseteq DOMAIN durableRels[i].props

\* add_links has just created a relationship
C7_Witness ==
    /\ last.op = "add_links" /\ last.outcome = "return" /\ last.created > 0
    /\ rels[Len(rels)].src = last.src

\* C8: get_node(['AS','FOO'], {asn: '65000'}, create=True) and
\* get_node(['FOO','AS'], {asn: 65000}, create=True) both return, and
\* return the same identifier.
C8_ListOrderAndAsnForm ==
    LET k1 == Key(List(<<"AS", "FOO">>), [asn |-> PyStr("65000")], TRUE)
        k2 == Key(List(<<"FOO", "AS">>), [asn |-> PyInt("65000")], TRUE)
    IN  /\ k1 \in DOMAIN seen => (seen[k1].outcome = "return" /\ seen[k1].ret # None)
        /\ k2 \in DOMAIN seen => (seen[k2].outcome = "return" /\ seen[k2].ret # None)
        /\ (k1 \in DOMAIN seen /\ k2 \in DOMAIN seen) => seen[k1].ret = seen[k2].ret

\* C9: format_properties applied to its own result returns that result, and
\* the dictionary it was given is the same after the call.
C9_FormatIdempotent ==
    fmt.called => (fmt.twice = fmt.once /\ fmt.after = fmt.arg)

\* format_properties has rewritten an ip or a prefix of its argument
C9_Witness ==
    /\ fmt.called
    /\ \E k \in {"ip", "prefix"} : k \in DOMAIN fmt.arg /\ fmt.once[k] # fmt.arg[k]

\* C10: a get_node with create=True that returns gives an identifier, never
\* None, and no cache entry of a creating call holds None.
C10_CreateNeverNone ==
    /\ (last.op = "get_node" /\ last.key.create /\ last.outcome = "return")
          => last.ret # None
    /\ \A k \in DOMAIN cache : k.create => cache[k] # None

C12_OneTransaction ==
    /\ tx = "open" => txs = {txid}
    /\ Cardinality(txs) <= 1
    /\ (last.op \in {"commit", "rollback"} /\ last.outcome = "return")
          => (txid > 0 /\ txid - 1 \notin txs)

\* a rollback has followed a commit: the third transaction is the open one
C12_Witness ==
    /\ last.op \in {"commit", "rollback"} /\ last.outcome = "return"
    /\ txid >= 2 /\ tx = "open"

\* C13: a rollback leaves the committed nodes and relationships as they
\* were and as the only ones the next transaction sees, and only commit and
\* close change the committed state.
C13_RollbackDiscards ==
    [][/\ (last'.op = "rollback" /\ last'.outcome = "return")
             => /\ durableNodes' = durableNodes /\ durableRels' = durableRels
                /\ nodes' = durableNodes /\ rels' = durableRels
       /\ (durableNodes' # durableNodes \/ durableRels' # durableRels)
             => last'.op \in {"commit", "close"}]_vars

\* a rollback has discarded a node the transaction had created
C13_Witness ==
    /\ last.op = "rollback" /\ last.outcome = "return"
    /\ \E i \in 0..(nextId - 1) : i \notin DOMAIN nodes /\ i \notin DOMAIN durableNodes

\* C14: a close() that returns has made the pending nodes and relationships
\* durable and ended the transaction, and once the instance is closed no
\* get_node, get_node_extid, add_links, commit or rollback returns.
C14_CloseIsTerminal ==
    /\ (last.op = "close" /\ last.outcome = "return")
          => /\ tx = "closed" /\ txs = {}
             /\ durableNodes = nodes /\ durableRels = rels
    /\ (tx = "closed" /\ last.op # "close") => last.outcome # "return"

\* two cache keys that differ in the order of their labels only
SameUpToOrder(k1, k2) ==
    /\ k1 # k2
    /\ k1.create = k2.create
    /\ k1.prop = k2.prop
    /\ TypeLabels(k1.type) = TypeLabels(k2.type)

\* C15: a get_node that follows, in the same transaction, a call with the
\* same labels in another order, the same properties and the same create
\* is answered from the cache entry of that call: it returns and issues no
\* store query.
C15_OrderInsensitiveKey ==
    (last.op = "get_node" /\ \E k \in DOMAIN seen : SameUpToOrder(k, last.key))
        => (last.outcome = "return" /\ last.hit /\ ~last.queried)

\* the constrained labels of a label argument
ConstrainedLabels(type) == TypeLabels(type) \cap NODE_CONSTRAINTS_LABELS

\* C16: a creating get_node whose labels hold more than one constrained
\* label returns, and for such a descriptor and a given store the merge
\* has one possible result: one merge label, one identifier, one store.
C16_DeterministicMergeLabel ==
    /\ (/\ last.op = "get_node" /\ last.key.create
        /\ Cardinality(ConstrainedLabels(last.key.type)) > 1)
          => last.outcome = "return"
    /\ \A d \in Descriptors :
          Cardinality(ConstrainedLabels(d.type)) > 1
             => Cardinality(get_node_body(d.type, d.prop, TRUE,
                                          nodes, nextId, tx = "open")) = 1

\* C17: a get_node with create=False and a get_node_extid leave the nodes
\* and the relationships, seen by the transaction and committed, as they
\* were, and give out no identifier; whether answered by the cache or by the
\* store, with a node found or not.
C17_LookupsReadOnly ==
    [][((last'.op = "get_node" /\ ~last'.key.create) \/ last'.op = "get_node_extid")
          => /\ nodes' = nodes /\ rels' = rels /\ nextId' = nextId
             /\ durableNodes' = durableNodes /\ durableRels' = durableRels]_vars

\* a get_node with create=False has asked the store and found no node
C17_Witness ==
    /\ last.op = "get_node" /\ ~last.key.create
    /\ last.queried /\ ~last.hit
    /\ last.outcome = "return" /\ last.ret = None

\* C18: a get_node(d, create=False) that follows, in the same transaction,
\* a get_node(d, create=True) that returned an identifier returns that
\* identifier.
C18_LookupSeesCreated ==
    LET created == Key(last.key.type, last.key.prop, TRUE)
    IN  (/\ last.op = "get_node" /\ ~last.key.create
         /\ created \in DOMAIN seen
         /\ seen[created].outcome = "return" /\ seen[created].ret # None)
            => (last.outcome = "return" /\ last.ret = seen[created].ret)

\* the relationships of rs from src to dst of the given type and properties
Links(rs, src, dst, type, props) ==
    {j \in 1..Len(rs) : /\ rs[j].src = src /\ rs[j].dst = dst
                         /\ rs[j].type = type /\ rs[j].props = props}

\* C19: after an add_links(X, links) that returns, X and the destinations
\* being nodes of the transaction, there is for each link exactly one
\* relationship from X to its destination with its type and its normalized
\* properties, however many times the link was added before, in this
\* transaction or in committed ones; no relationship is there twice.
C19_AddLinksIdempotent ==
    /\ (/\ last.op = "add_links" /\ last.outcome = "return"
        /\ last.src \in DOMAIN nodes
        /\ \A i \in 1..Len(last.links) : last.links[i].dst \in DOMAIN nodes)
          => \A i \in 1..Len(last.links) :
                Cardinality(Links(rels, last.src, last.links[i].dst,
                                  last.links[i].type,
                                  dict2str(format_properties(last.links[i].prop)))) = 1
    /\ \A i, j \in 1..Len(rels) : rels[i] = rels[j] => i = j
    /\ \A i, j \in 1..Len(durableRels) : durableRels[i] = durableRels[j] => i = j

\* add_links has been called again with a link that an earlier call created
\* and a commit made durable, and has created nothing
C19_Witness ==
    /\ last.op = "add_links" /\ last.outcome = "return"
    /\ last.stmts > 0 /\ last.created = 0
    /\ Links(durableRels, last.src, last.links[1].dst, last.links[1].type,
             dict2str(format_properties(last.links[1].prop))) # {}

(***************************************************************************)
(* Two IYP instances on one store.  Each has its own session, hence its    *)
(* own transaction, and its own process, hence its own lru cache.  A       *)
(* transaction sees the committed nodes and what it wrote itself.  The     *)
(* store checks a UNIQUE constraint against every node it holds,           *)
(* committed or pending in any transaction, and a write to a node another  *)
(* open transaction has written waits for that transaction to end.         *)
(* durableNodes is the committed store, nextId its identifier counter.     *)
(***************************************************************************)
Instances == {1, 2}

Other(i) == CHOOSE j \in Instances : j # i

\* the descriptors the two instances resolve
RaceDescriptors ==
    {[type |-> Str("AS"), prop |-> [asn |-> PyStr("65000"), name |-> PyStr("A")]],
     [type |-> Str("AS"), prop |-> [asn |-> PyInt("65000"), name |-> PyStr("B")]],
     [type |-> Str("PREFIX"),
      prop |-> [prefix |-> PyStr("2001:DB8::/32"), af |-> PyInt("6")]],
     [type |-> Str("PREFIX"),
      prop |-> [prefix |-> PyStr("2001:db8::/32"), af |-> PyInt("6")]]}

\* two descriptors of one constrained entity: the same label, equal
\* normalized values of its UNIQUE properties and of the other properties
\* its merge key holds
SameEntity(d1, d2) ==
    /\ d1.type = d2.type
    /\ \A p \in DOMAIN NODE_CONSTRAINTS[d1.type.names[1]] :
          Normalized(p, d1.prop[p]) = Normalized(p, d2.prop[p])

\* IYP.__init__ of one instance that will resolve d
NewInstance(d) ==
    [d |-> d, pc |-> "idle", calls |-> 0, commits |-> 0,
     returned |-> FALSE, ret |-> None, fallback |-> FALSE, hit |-> FALSE,
     cache |-> [k \in {} |-> None],
     pending |-> NoNodes]

\* what the transaction of instance i sees
View(i) ==
    [id \in DOMAIN durableNodes \cup DOMAIN inst[i].pending |->
        IF id \in DOMAIN inst[i].pending THEN inst[i].pending[id]
        ELSE durableNodes[id]]

\* the return of get_node in instance i, through lru_cache
RaceReturn(i, key, r, fell, hit) ==
    [inst[i] EXCEPT !.pc = "idle", !.returned = TRUE, !.ret = r,
                    !.fallback = fell, !.hit = hit,
                    !.cache = [k \in DOMAIN inst[i].cache \cup {key} |->
                                  IF k = key THEN r ELSE inst[i].cache[k]]]

\* get_node(d, create=True) in instance i, up to the return or to the
\* ConstraintError of its MERGE
race_get_node(i) ==
    LET d == inst[i].d
        key == Key(d.type, d.prop, TRUE)
        prop == format_properties(d.prop)
        labels == TypeLabels(d.type)
        label == CHOOSE l \in NODE_CONSTRAINTS_LABELS \cap labels : TRUE
        view == View(i)
        matched == Match(view, {label}, dict2str(constraint_prop(label, prop)))
        merged == Merged(label, labels, prop, view, nextId)
        written == IF matched # {} THEN matched ELSE {nextId}
        theirs == inst[Other(i)].pending
        held == [id \in DOMAIN merged \cup DOMAIN theirs |->
                    IF id \in DOMAIN merged THEN merged[id] ELSE theirs[id]]
    IN  /\ inst[i].pc = "idle"
        /\ inst[i].calls < MaxRaceCalls
        /\ IF key \in DOMAIN inst[i].cache
           THEN /\ inst' = [inst EXCEPT ![i] =
                       [RaceReturn(i, key, inst[i].cache[key], FALSE, TRUE)
                           EXCEPT !.calls = @ + 1]]
                /\ UNCHANGED nextId
           ELSE /\ written \cap DOMAIN theirs = {}
                /\ IF ConstraintViolated(held)
                   THEN /\ inst' = [inst EXCEPT ![i].pc = "refused", ![i].calls = @ + 1]
                        /\ UNCHANGED nextId
                   ELSE \E r \in written :
                        /\ inst' = [inst EXCEPT ![i] =
                               [RaceReturn(i, key, r, FALSE, FALSE)
                                   EXCEPT !.calls = @ + 1,
                                          !.pending =
                                             [id \in DOMAIN inst[i].pending \cup written |->
                                                 merged[id]]]]
                        /\ nextId' = IF matched # {} THEN nextId ELSE nextId + 1
        /\ UNCHANGED <<nodes, rels, durableNodes, durableRels, tx, txs, txid, cache,
                       cacheExt, last, seen, stale, staleExt, calls, fmt>>

\* the except branch of get_node in instance i, and the return
race_fallback(i) ==
    LET d == inst[i].d
        key == Key(d.type, d.prop, TRUE)
        label == CHOOSE l \in NODE_CONSTRAINTS_LABELS \cap TypeLabels(d.type) : TRUE
    IN  /\ inst[i].pc = "refused"
        /\ \E o \in on_constraint_error(label, format_properties(d.prop), View(i), nextId) :
              inst' = [inst EXCEPT ![i] = RaceReturn(i, key, o.ret, o.fallback, FALSE)]
        /\ UNCHANGED <<nodes, rels, durableNodes, durableRels, nextId, tx, txs, txid,
                       cache, cacheExt, last, seen, stale, staleExt, calls, fmt>>

\* commit() in instance i
race_commit(i) ==
    /\ inst[i].pc = "idle"
    /\ inst[i].commits < MaxCommits
    /\ durableNodes' = tx_commit(View(i), durableNodes).durable
    /\ inst' = [inst EXCEPT ![i].pending = NoNodes, ![i].commits = @ + 1]
    /\ UNCHANGED <<nodes, rels, durableRels, nextId, tx, txs, txid, cache, cacheExt,
                   last, seen, stale, staleExt, calls, fmt>>

RaceGetNode == \E i \in Instances : race_get_node(i)
RaceFallback == \E i \in Instances : race_fallback(i)
RaceCommit == \E i \in Instances : race_commit(i)

\* both instances are new, on a store that is empty or that holds the AS
InitRace ==
    /\ InitIYP
    /\ fmt = FmtIdle
    /\ \E d1, d2 \in RaceDescriptors :
          /\ SameEntity(d1, d2)
          /\ inst = [i \in Instances |-> NewInstance(IF i = 1 THEN d1 ELSE d2)]

NextRace == RaceGetNode \/ RaceFallback \/ RaceCommit

SpecRace == InitRace /\ [][NextRace]_vars

\* C20: of two instances that resolve the same constrained entity with
\* create=True, each call that has returned has returned an identifier, the
\* two have returned the same one, and the committed store holds no two
\* nodes with the entity's key.
C20_RaceSameNode ==
    /\ \A i \in Instances : inst[i].returned => inst[i].ret # None
    /\ \A i, j \in Instances :
          (inst[i].returned /\ inst[j].returned) => inst[i].ret = inst[j].ret
    /\ \A label \in NODE_CONSTRAINTS_LABELS : \A p \in UniqueProps(label) :
          ~Duplicate(durableNodes, label, p)

====
